---- MODULE Spec2Model ----
(***************************************************************************)
(* Python inventory service: the REST gateway (api.py), the upstream       *)
(* client / aggregator (inventory_service.py) and the product data model   *)
(* (models.py).                                                            *)
(*                                                                         *)
(* One gateway request is handled at a time.  An action is one run of the  *)
(* handler's coroutine between two awaits: it ends when the coroutine      *)
(* suspends on an upstream HTTP call or when the gateway's response is     *)
(* produced.  The upstream backend is the environment: every response      *)
(* (status, body, or a network-level failure) is chosen by \E.             *)
(***************************************************************************)
EXTENDS Integers, Sequences, FiniteSets, TLC

(***************************************************************************)
(* Bounds of the model.                                                    *)
(***************************************************************************)
MaxQuantity == 3     \* quantities 0..MaxQuantity in the round-trip inputs
MaxBodyLen == 1      \* length of the JSON arrays the upstream answers with

(***************************************************************************)
(* Python values.                                                          *)
(***************************************************************************)
None == "<None>"

\* isinstance(v, str): every non-null JSON scalar used for a category is a string
IsStr(v) == v # None

RECURSIVE Pow10(_)
Pow10(n) == IF n = 0 THEN 1 ELSE 10 * Pow10(n - 1)

\* decimal.Decimal: coef * 10^(-exp), the digits are kept as written
Dec(c, e) == [coef |-> c, exp |-> e]

\* Decimal.__eq__ is numeric: Decimal('19.990') == Decimal('19.99')
DecEq(a, b) == a.coef * Pow10(b.exp) = b.coef * Pow10(a.exp)

\* int * Decimal
DecMulInt(q, d) == Dec(q * d.coef, d.exp)

\* round(d, 2): Decimal.__round__ quantizes to two places, ROUND_HALF_EVEN
DecRound2(d) ==
    IF d.exp <= 2
    THEN Dec(d.coef * Pow10(2 - d.exp), 2)
    ELSE LET p == Pow10(d.exp - 2)
             q == d.coef \div p
             r == d.coef % p
         IN  IF 2 * r > p \/ (2 * r = p /\ q % 2 = 1)
             THEN Dec(q + 1, 2)
             ELSE Dec(q, 2)

\* A Python float is written as its shortest repr (what str(x) and json.dumps
\* print): at least one fractional digit, no trailing zero after it.
RECURSIVE FloatRepr(_)
FloatRepr(d) ==
    IF d.exp = 0 THEN Dec(d.coef * 10, 1)
    ELSE IF d.exp > 1 /\ d.coef % 10 = 0 THEN FloatRepr(Dec(d.coef \div 10, d.exp - 1))
    ELSE d

\* float(Decimal): exact for the short decimals of the model (at most 15
\* significant digits survive a double unchanged)
ToFloat(d) == FloatRepr(d)

\* Decimal(str(x)) for a float x: the digits of the repr
DecimalOfStr(x) == Dec(x.coef, x.exp)

(***************************************************************************)
(* models.py: ProductCategory                                              *)
(***************************************************************************)
\* the members in definition order; iteration over the Enum follows it
ProductCategory ==
    << [name |-> "ACCESSORIES", value |-> "Accessories"],
       [name |-> "HARDWARE",    value |-> "Hardware"],
       [name |-> "SOFTWARE",    value |-> "Software"],
       [name |-> "BOOKS",       value |-> "Books"],
       [name |-> "MOVIES",      value |-> "Movies"],
       [name |-> "MUSIC",       value |-> "Music"],
       [name |-> "GAMES",       value |-> "Games"],
       [name |-> "OTHER",       value |-> "Other"] >>

NumCategories == Len(ProductCategory)

CategoryNames == { ProductCategory[i].name : i \in 1..NumCategories }

CategoryValues == { ProductCategory[i].value : i \in 1..NumCategories }

\* category.value
CategoryValue(member) ==
    ProductCategory[CHOOSE i \in 1..NumCategories : ProductCategory[i].name = member].value

\* ProductCategory(value): lookup by value, exact match, ValueError otherwise
ByValueLenient(v) ==
    IF v \in CategoryValues
    THEN [exc |-> "none",
          val |-> ProductCategory[CHOOSE i \in 1..NumCategories :
                                     ProductCategory[i].value = v].name]
    ELSE [exc |-> "none", val |-> "OTHER"]

ByValue(v) ==
    IF v \in CategoryValues
    THEN [exc |-> "none",
          val |-> ProductCategory[CHOOSE i \in 1..NumCategories :
                                     ProductCategory[i].value = v].name]
    ELSE [exc |-> "ValueError", val |-> None]

(***************************************************************************)
(* models.py: ProductDetails                                               *)
(***************************************************************************)
FieldNames ==
    {"id", "name", "description", "category", "quantity", "unit_price",
     "details_url", "image_url"}

\* the dataclass defaults
Defaults ==
    [id |-> None, name |-> None, description |-> None, category |-> "OTHER",
     quantity |-> 0, unit_price |-> Dec(0, 2), details_url |-> None,
     image_url |-> None]

\* ProductDetails(**kw): keyword arguments over the defaults
Construct(kw) == [f \in FieldNames |-> IF f \in DOMAIN kw THEN kw[f] ELSE Defaults[f]]

\* the generated __eq__: the tuples of fields compare equal
ProductEq(r, s) ==
    /\ \A f \in FieldNames \ {"unit_price"} : r[f] = s[f]
    /\ DecEq(r.unit_price, s.unit_price)

\* @dataclass with eq=True and without frozen=True sets __hash__ to None
Hashable == FALSE

\* the total_price property
total_price(r) == DecRound2(DecMulInt(r.quantity, r.unit_price))

\* to_dict: asdict, then category, unit_price and total_price are overwritten
to_dict(r) ==
    [k \in FieldNames \cup {"total_price"} |->
        IF k = "category" THEN CategoryValue(r.category)
        ELSE IF k = "unit_price" THEN ToFloat(r.unit_price)
        ELSE IF k = "total_price" THEN ToFloat(total_price(r))
        ELSE r[k]]

\* from_dict: the category is looked up, the price re-parsed, cls(**data)
from_dict(data) ==
    LET keys == DOMAIN data
        cat  == IF "category" \in keys /\ IsStr(data.category)
                THEN ByValue(data.category)
                ELSE [exc |-> "none", val |-> None]
        kw   == [k \in keys |->
                    IF k = "category" /\ IsStr(data.category) THEN cat.val
                    ELSE IF k = "unit_price" THEN DecimalOfStr(data.unit_price)
                    ELSE data[k]]
    IN  IF cat.exc # "none" THEN [exc |-> cat.exc, val |-> Defaults]
        ELSE IF ~(keys \subseteq FieldNames) THEN [exc |-> "TypeError", val |-> Defaults]
        ELSE [exc |-> "none", val |-> Construct(kw)]

\* to_json / from_json: json.dumps and json.loads of a dict of strings,
\* numbers and nulls; the text is kept as the parsed document it denotes
to_json(r) == [text |-> to_dict(r)]

from_json(s) == from_dict(s.text)

(***************************************************************************)
(* The inputs: gateway requests and upstream responses.                    *)
(***************************************************************************)
\* path parameters: the eight category values and two strings outside them
CategoryStrings == CategoryValues \cup {"Toys", "books"}

ProductIds == {"abc123", "zzz"}

Price1999 == Dec(1999, 2)

\* the records the upstream holds
R1 == [id |-> "abc123", name |-> "Widget", description |-> None, category |-> "BOOKS",
       quantity |-> 3, unit_price |-> Price1999, details_url |-> None, image_url |-> None]

R2 == [id |-> "zzz", name |-> None, description |-> None, category |-> "MUSIC",
       quantity |-> 1, unit_price |-> Dec(50, 1), details_url |-> None, image_url |-> None]

\* a JSON object without some keys
Without(d, ks) == [k \in (DOMAIN d) \ ks |-> d[k]]

\* the JSON objects the upstream answers with: a product without the derived
\* total_price, two products in the documented shape (with it), an object
\* with only an id, one with an unknown category, one with a null category
JsonDicts ==
    { Without(to_dict(R1), {"total_price"}),
      Without(to_dict(R2), {"total_price"}),
      to_dict(R1),
      [id |-> "abc123"],
      [id |-> "abc123", category |-> "Toys"],
      [id |-> "zzz", category |-> None] }

RECURSIVE SeqsUpTo(_, _)
SeqsUpTo(S, n) ==
    IF n = 0 THEN { <<>> }
    ELSE LET shorter == SeqsUpTo(S, n - 1)
         IN  shorter \cup { Append(q, x) : q \in shorter, x \in S }

\* response bodies: not JSON at all, a JSON array of objects, one JSON object
Bodies ==
    { [kind |-> "malformed", items |-> <<>>] }
    \cup { [kind |-> "array", items |-> q] : q \in SeqsUpTo(JsonDicts, MaxBodyLen) }
    \cup { [kind |-> "object", items |-> <<d>>] : d \in JsonDicts }

Statuses == {200, 201, 204, 400, 404, 500, 503}

\* what one upstream call comes back with: a response, or a network failure
\* (timeout, connection refused) raised by aiohttp
Outcomes ==
    { [net |-> "error", status |-> 0, body |-> [kind |-> "malformed", items |-> <<>>]] }
    \cup { [net |-> "ok", status |-> s, body |-> b] : s \in Statuses, b \in Bodies }

\* ProductRequest bodies accepted by the framework's validation
ProductRequests ==
    { [id |-> "abc123", name |-> "Widget", description |-> None, category |-> "Books",
       quantity |-> 3, unit_price |-> ToFloat(Price1999), details_url |-> None,
       image_url |-> None],
      [id |-> "zzz", name |-> None, description |-> None, category |-> "Toys",
       quantity |-> 0, unit_price |-> ToFloat(Dec(0, 0)), details_url |-> None,
       image_url |-> None] }

(***************************************************************************)
(* inventory_service.py: the client operations as functions of the         *)
(* upstream outcome.  A result is [exc, val]: exc is the exception that    *)
(* leaves the operation ("none" when it returns val).                      *)
(***************************************************************************)
Return(v) == [exc |-> "none", val |-> v]

Raise(e, v) == [exc |-> e, val |-> v]

\* try: <attempt>  except Exception as e: log; return <sentinel>
TryExceptRethrow(attempt, sentinel) == attempt

TryExcept(attempt, sentinel) ==
    IF attempt.exc # "none" THEN Return(sentinel) ELSE attempt

\* [ProductDetails.from_dict(product) for product in products_data]
RECURSIVE ParseAll(_)
ParseAll(items) ==
    IF items = <<>> THEN Return(<<>>)
    ELSE LET h == from_dict(Head(items))
             t == ParseAll(Tail(items))
         IN  IF h.exc # "none" THEN Raise(h.exc, <<>>)
             ELSE IF t.exc # "none" THEN t
             ELSE Return(<<h.val>> \o t.val)

\* the body of the try in _get_products_by_category_async
ListAttempt(out) ==
    IF out.net # "ok" THEN Raise("ClientError", <<>>)
    ELSE IF out.status = 200
         THEN IF out.body.kind = "malformed" THEN Raise("ContentTypeError", <<>>)
              ELSE IF out.body.kind # "array" THEN Raise("TypeError", <<>>)
              ELSE ParseAll(out.body.items)
         ELSE Return(<<>>)

\* _get_products_by_category_async: every exception becomes the empty list
get_products_by_category_async(out) == TryExcept(ListAttempt(out), <<>>)

\* the body of the try in get_product_by_id_async; <<>> stands for None,
\* <<r>> for the product r
GetByIdAttempt(out) ==
    IF out.net # "ok" THEN Raise("ClientError", <<>>)
    ELSE IF out.status = 200
         THEN IF out.body.kind = "malformed" THEN Raise("ContentTypeError", <<>>)
              ELSE IF out.body.kind # "object" THEN Raise("TypeError", <<>>)
              ELSE LET p == from_dict(out.body.items[1])
                   IN  IF p.exc # "none" THEN Raise(p.exc, <<>>) ELSE Return(<<p.val>>)
         ELSE IF out.status = 404 THEN Return(<<>>)
         ELSE Return(<<>>)

get_product_by_id_async(out) == TryExcept(GetByIdAttempt(out), <<>>)

\* response.status in [200, 201]
AddAttemptLenient(out) ==
    IF out.net # "ok" THEN Raise("ClientError", FALSE)
    ELSE Return(out.status \in {200, 201, 204})

AddAttempt(out) ==
    IF out.net # "ok" THEN Raise("ClientError", FALSE)
    ELSE Return(out.status \in {200, 201})

add_or_update_product_async(out) == TryExcept(AddAttempt(out), FALSE)

\* response.status in [200, 204]
RemoveAttemptOnly200(out) ==
    IF out.net # "ok" THEN Raise("ClientError", FALSE)
    ELSE Return(out.status \in {200})

RemoveAttempt(out) ==
    IF out.net # "ok" THEN Raise("ClientError", FALSE)
    ELSE Return(out.status \in {200, 204})

remove_product_async(out) == TryExcept(RemoveAttempt(out), FALSE)

\* all_products.update(products): the elements are hashed one by one
SetUpdate(s, products) ==
    IF products = <<>> THEN Return(s)
    ELSE IF ~Hashable THEN Raise("TypeError", s)
    ELSE Return(s \cup { products[i] : i \in 1..Len(products) })

\* one round of the loop of get_all_products_async: the category's list is
\* merged; an exception of either step is logged and the set stays as it was
MergeCategory(s, out) ==
    LET products == get_products_by_category_async(out)
    IN  IF products.exc # "none" THEN s
        ELSE TryExcept(SetUpdate(s, products.val), s).val

\* for category in ProductCategory: is there a member after the i-th
HasNextSkipLast(i) == i < NumCategories - 1

HasNext(i) == i < NumCategories

\* the upstream URLs, as their segments after the base URL
ListUrl(base, cat) == <<base, "api", "inventory", CategoryValue(cat), "products">>

ProductUrl(base, id) == <<base, "api", "products", id>>

ItemUrl(base, cat, id) == <<base, "api", "inventory", CategoryValue(cat), "products", id>>

\* an upstream HTTP request; json is <<>> or <<the body>>
Call(method, url, json) == [method |-> method, url |-> url, json |-> json]

(***************************************************************************)
(* api.py: the shape of the gateway's answers                              *)
(***************************************************************************)
Resp(status, kind, body) == [status |-> status, kind |-> kind, body |-> body]

NoResponse == Resp(0, "none", <<>>)

\* product_to_response; a product whose category is not a member has no .value
product_to_response(p) ==
    IF p.category \notin CategoryNames THEN Raise("AttributeError", <<>>)
    ELSE Return([id |-> p.id, name |-> p.name, description |-> p.description,
                 category |-> CategoryValue(p.category), quantity |-> p.quantity,
                 unit_price |-> ToFloat(p.unit_price),
                 total_price |-> ToFloat(total_price(p)),
                 details_url |-> p.details_url, image_url |-> p.image_url])

\* [product_to_response(product) for product in products]
RECURSIVE ResponseList(_)
ResponseList(products) ==
    IF products = <<>> THEN Return(<<>>)
    ELSE LET h == product_to_response(Head(products))
             t == ResponseList(Tail(products))
         IN  IF h.exc # "none" THEN Raise(h.exc, <<>>)
             ELSE IF t.exc # "none" THEN t
             ELSE Return(<<h.val>> \o t.val)

\* the ProductDetails built from the request body and the path category
ProductOfRequestBodyCategory(b, cat) ==
    [id |-> b.id, name |-> b.name, description |-> b.description,
     category |-> IF b.category \in CategoryValues THEN ByValue(b.category).val ELSE cat,
     quantity |-> b.quantity, unit_price |-> DecimalOfStr(b.unit_price),
     details_url |-> b.details_url, image_url |-> b.image_url]

ProductOfRequest(b, cat) ==
    [id |-> b.id, name |-> b.name, description |-> b.description, category |-> cat,
     quantity |-> b.quantity, unit_price |-> DecimalOfStr(b.unit_price),
     details_url |-> b.details_url, image_url |-> b.image_url]

\* the gateway's answer to GET /products/{id}, from the service's result
GetProductByIdResponseAs500(r) ==
    IF r.exc # "none" THEN Resp(500, "error", <<"Failed to retrieve product">>)
    ELSE IF r.val = <<>> THEN Resp(500, "error", <<"Failed to retrieve product">>)
    ELSE LET pr == product_to_response(r.val[1])
         IN  IF pr.exc # "none" THEN Resp(500, "error", <<"Failed to retrieve product">>)
             ELSE Resp(200, "product", <<pr.val>>)

GetProductByIdResponse(r) ==
    IF r.exc # "none" THEN Resp(500, "error", <<"Failed to retrieve product">>)
    ELSE IF r.val = <<>> THEN Resp(404, "error", <<"not found">>)
    ELSE LET pr == product_to_response(r.val[1])
         IN  IF pr.exc # "none" THEN Resp(500, "error", <<"Failed to retrieve product">>)
             ELSE Resp(200, "product", <<pr.val>>)

\* the gateway's answer to GET /categories/{cat}/products
GetProductsByCategoryResponse(r) ==
    IF r.exc # "none" THEN Resp(500, "error", <<"Failed to retrieve products for category">>)
    ELSE LET prs == ResponseList(r.val)
         IN  IF prs.exc # "none"
             THEN Resp(500, "error", <<"Failed to retrieve products for category">>)
             ELSE Resp(200, "products", prs.val)

\* the gateway's answer to POST /categories/{cat}/products
AddOrUpdateResponse(r, product) ==
    IF r.exc # "none" THEN Resp(500, "error", <<"Failed to add or update product">>)
    ELSE IF ~r.val THEN Resp(500, "error", <<"Failed to add or update product">>)
    ELSE LET pr == product_to_response(product)
         IN  IF pr.exc # "none" THEN Resp(500, "error", <<"Failed to add or update product">>)
             ELSE Resp(200, "product", <<pr.val>>)

\* the gateway's answer to DELETE /categories/{cat}/products/{id}
RemoveProductResponse(r) ==
    IF r.exc # "none" THEN Resp(500, "error", <<"Failed to remove product">>)
    ELSE IF ~r.val THEN Resp(404, "error", <<"not found or could not be removed">>)
    ELSE Resp(200, "message", <<"removed successfully">>)

\* the 400 of the category validation
InvalidCategoryResponse == Resp(400, "error", <<"Invalid category">>)

\* the keys create_custom_metrics puts into the metrics dictionary
MetricKeys == {"operations", "product_count", "request_duration", "orleans_calls"}

\* create_custom_metrics: the four instruments, or {} when creating them raised
create_custom_metrics(created) == IF created THEN MetricKeys ELSE {}

\* initialize_telemetry followed by get_custom_metrics(): when setup_telemetry
\* returned None the function returns early and _custom_metrics stays {};
\* the API key only adds a header to the exporters
initialize_telemetry(api_key, setup_ok, created) ==
    IF ~setup_ok THEN {} ELSE create_custom_metrics(created)

\* the gateway's answer to GET /products: the metrics are recorded before the
\* products are converted; a missing key raises KeyError inside the try and
\* again inside the except clause, and the framework answers 500
GetAllProductsResponse(m, products) ==
    IF "operations" \notin m
    THEN Resp(500, "error", <<"Internal Server Error">>)
    ELSE IF ~({"product_count", "request_duration"} \subseteq m)
    THEN Resp(500, "error", <<"Failed to retrieve products">>)
    ELSE LET prs == ResponseList(products)
         IN  IF prs.exc # "none"
             THEN Resp(500, "error", <<"Failed to retrieve products">>)
             ELSE Resp(200, "products", prs.val)

\* the orders in which a set can be iterated
RECURSIVE Orderings(_)
Orderings(S) ==
    IF S = {} THEN { <<>> }
    ELSE UNION { { <<x>> \o q : q \in Orderings(S \ {x}) } : x \in S }

(***************************************************************************)
(* The state.                                                              *)
(***************************************************************************)
VARIABLES
    pc,            \* "idle", "wait" (suspended on an upstream call), "done"
    req,           \* the gateway request being handled
    calls,         \* the upstream requests issued for it, in order
    inflight,      \* the upstream requests not yet answered
    arrived,       \* get_all_products_async: the categories already answered
    idx,           \* get_all_products_async: position of the loop
    all_products,  \* get_all_products_async: the local set
    failed,        \* the categories whose upstream call failed
    okUnion,       \* the records the successful category calls returned
    upstream,      \* the outcome of the upstream call of a single-call request
    result,        \* what the service operation returned to the handler
    response,      \* the gateway's answer
    metrics,       \* api.metrics: the keys of the custom-metrics dictionary
    svc,           \* the fields of the InventoryService instance
    rt             \* a serialization round trip: stage, record, document, outcome

vars == <<pc, req, calls, inflight, arrived, idx, all_products, failed, okUnion,
          upstream, result, response, metrics, svc, rt>>

Request(op, category, id, body) ==
    [op |-> op, category |-> category, product_id |-> id, body |-> body]

NoRequest == Request("none", None, None, <<>>)

NoOutcome == [net |-> "none", status |-> 0, body |-> [kind |-> "malformed", items |-> <<>>]]

NoResult == Return(<<>>)

\* InventoryService.__init__ with the default base URL
NewService ==
    [orleans_base_url |-> "http://localhost:5001", _product_cache |-> {},
     _last_cache_update |-> None]

NoRoundTrip == [stage |-> "none", r |-> Defaults, doc |-> <<>>, out |-> Return(Defaults)]

\* the gateway after start-up; telemetry came up with its metrics or without
Init ==
    /\ pc = "idle"
    /\ req = NoRequest
    /\ calls = <<>>
    /\ inflight = {}
    /\ arrived = {}
    /\ idx = 0
    /\ all_products = {}
    /\ failed = {}
    /\ okUnion = {}
    /\ upstream = NoOutcome
    /\ result = NoResult
    /\ response = NoResponse
    /\ \E api_key \in {None, "key"}, setup_ok \in BOOLEAN, created \in BOOLEAN :
         metrics = initialize_telemetry(api_key, setup_ok, created)
    /\ svc = NewService
    /\ rt = NoRoundTrip

\* no request is being handled
Idle == pc \in {"idle", "done"}

\* a request is accepted: nothing of the previous one is left
Accept(r) ==
    /\ Idle
    /\ req' = r
    /\ arrived' = {}
    /\ failed' = {}
    /\ okUnion' = {}
    /\ all_products' = {}
    /\ upstream' = NoOutcome
    /\ result' = NoResult
    /\ UNCHANGED <<metrics, svc, rt>>

\* the handler suspends on its first upstream call
Suspend(call) ==
    /\ calls' = <<call>>
    /\ inflight' = {call}
    /\ response' = NoResponse
    /\ pc' = "wait"

\* the handler answers without any upstream call
Reject(resp) ==
    /\ calls' = <<>>
    /\ inflight' = {}
    /\ response' = resp
    /\ pc' = "done"

\* the handler of a single-call request resumes with the outcome and answers
AnswerRetrying(out, res, resp) ==
    IF out.net # "ok" /\ Len(calls) < 2
    THEN /\ calls' = Append(calls, calls[1])
         /\ inflight' = {calls[1]}
         /\ pc' = "wait"
         /\ UNCHANGED <<req, upstream, result, response, arrived, idx, all_products,
                        failed, okUnion, metrics, svc, rt>>
    ELSE /\ upstream' = out
         /\ result' = res
         /\ response' = resp
         /\ inflight' = {}
         /\ pc' = "done"
         /\ UNCHANGED <<req, calls, arrived, idx, all_products, failed, okUnion,
                        metrics, svc, rt>>

AnswerCaching(out, res, resp) ==
    /\ upstream' = out
    /\ result' = res
    /\ response' = resp
    /\ inflight' = {}
    /\ pc' = "done"
    /\ svc' = [svc EXCEPT !._product_cache = @ \cup {req.op},
                          !._last_cache_update = "now"]
    /\ UNCHANGED <<req, calls, arrived, idx, all_products, failed, okUnion,
                   metrics, rt>>

Answer(out, res, resp) ==
    /\ upstream' = out
    /\ result' = res
    /\ response' = resp
    /\ inflight' = {}
    /\ pc' = "done"
    /\ UNCHANGED <<req, calls, arrived, idx, all_products, failed, okUnion,
                   metrics, svc, rt>>

Range(q) == { q[i] : i \in 1..Len(q) }

(***************************************************************************)
(* GET /products                                                           *)
(***************************************************************************)
StartGetAllProducts ==
    /\ Accept(Request("get_all_products", None, None, <<>>))
    /\ idx' = 1
    /\ Suspend(Call("GET", ListUrl(svc.orleans_base_url, ProductCategory[1].name), <<>>))

\* the call of the loop's category is answered: its list is merged, and the
\* loop either issues the next category's call or returns the set
ReceiveGetAllProducts ==
    /\ pc = "wait"
    /\ req.op = "get_all_products"
    /\ \E out \in Outcomes :
         LET cat    == ProductCategory[idx].name
             lst    == ListAttempt(out)
             merged == MergeCategory(all_products, out)
         IN  /\ all_products' = merged
             /\ arrived' = arrived \cup {cat}
             /\ failed' = IF out.net # "ok" \/ out.status # 200 \/ lst.exc # "none"
                          THEN failed \cup {cat} ELSE failed
             /\ okUnion' = IF lst.exc = "none" THEN okUnion \cup Range(lst.val)
                           ELSE okUnion
             /\ IF HasNext(idx)
                THEN LET next == Call("GET", ListUrl(svc.orleans_base_url,
                                                    ProductCategory[idx + 1].name), <<>>)
                     IN  /\ idx' = idx + 1
                         /\ calls' = Append(calls, next)
                         /\ inflight' = {next}
                         /\ pc' = "wait"
                         /\ UNCHANGED <<result, response>>
                ELSE /\ idx' = idx
                     /\ inflight' = {}
                     /\ pc' = "done"
                     /\ result' = Return(merged)
                     /\ \E order \in Orderings(merged) :
                          response' = GetAllProductsResponse(metrics, order)
                     /\ UNCHANGED calls
    /\ UNCHANGED <<req, upstream, metrics, svc, rt>>

(***************************************************************************)
(* GET /products/{product_id}                                              *)
(***************************************************************************)
StartGetProductById ==
    \E id \in ProductIds :
        /\ Accept(Request("get_product_by_id", None, id, <<>>))
        /\ idx' = 0
        /\ Suspend(Call("GET", ProductUrl(svc.orleans_base_url, id), <<>>))

ReceiveGetProductById ==
    /\ pc = "wait"
    /\ req.op = "get_product_by_id"
    /\ \E out \in Outcomes :
         LET r == get_product_by_id_async(out)
         IN  Answer(out, r, GetProductByIdResponse(r))

(***************************************************************************)
(* GET /categories/{category}/products                                     *)
(***************************************************************************)
StartGetProductsByCategory ==
    \E c \in CategoryStrings :
        /\ Accept(Request("get_products_by_category", c, None, <<>>))
        /\ idx' = 0
        /\ LET product_category == ByValue(c)
           IN  IF product_category.exc # "none"
               THEN Reject(InvalidCategoryResponse)
               ELSE Suspend(Call("GET", ListUrl(svc.orleans_base_url,
                                                product_category.val), <<>>))

ReceiveGetProductsByCategory ==
    /\ pc = "wait"
    /\ req.op = "get_products_by_category"
    /\ \E out \in Outcomes :
         LET r == get_products_by_category_async(out)
         IN  Answer(out, r, GetProductsByCategoryResponse(r))

(***************************************************************************)
(* POST /categories/{category}/products                                    *)
(***************************************************************************)
StartAddOrUpdateProduct ==
    \E c \in CategoryStrings, b \in ProductRequests :
        /\ Accept(Request("add_or_update_product", c, None, <<b>>))
        /\ idx' = 0
        /\ LET product_category == ByValue(c)
           IN  IF product_category.exc # "none"
               THEN Reject(InvalidCategoryResponse)
               ELSE LET product == ProductOfRequest(b, product_category.val)
                    IN  Suspend(Call("POST",
                                     ListUrl(svc.orleans_base_url, product.category),
                                     <<to_dict(product)>>))

ReceiveAddOrUpdateProduct ==
    /\ pc = "wait"
    /\ req.op = "add_or_update_product"
    /\ \E out \in Outcomes :
         LET product == ProductOfRequest(req.body[1], ByValue(req.category).val)
             r       == add_or_update_product_async(out)
         IN  Answer(out, r, AddOrUpdateResponse(r, product))

(***************************************************************************)
(* DELETE /categories/{category}/products/{product_id}                     *)
(***************************************************************************)
StartRemoveProduct ==
    \E c \in CategoryStrings, id \in ProductIds :
        /\ Accept(Request("remove_product", c, id, <<>>))
        /\ idx' = 0
        /\ LET product_category == ByValue(c)
           IN  IF product_category.exc # "none"
               THEN Reject(InvalidCategoryResponse)
               ELSE Suspend(Call("DELETE",
                                 ItemUrl(svc.orleans_base_url, product_category.val, id),
                                 <<>>))

ReceiveRemoveProduct ==
    /\ pc = "wait"
    /\ req.op = "remove_product"
    /\ \E out \in Outcomes :
         LET r == remove_product_async(out)
         IN  Answer(out, r, RemoveProductResponse(r))

Next ==
    \/ StartGetAllProducts
    \/ ReceiveGetAllProducts
    \/ StartGetProductById
    \/ ReceiveGetProductById
    \/ StartGetProductsByCategory
    \/ ReceiveGetProductsByCategory
    \/ StartAddOrUpdateProduct
    \/ ReceiveAddOrUpdateProduct
    \/ StartRemoveProduct
    \/ ReceiveRemoveProduct

Spec == Init /\ [][Next]_vars

(***************************************************************************)
(* The serialization round trip of one ProductDetails record.              *)
(***************************************************************************)
Prices == { Price1999, Dec(0, 2), Dec(125, 3), Dec(20, 0), Dec(19990, 3) }

RoundTripRecords ==
    { [id |-> i, name |-> None, description |-> None, category |-> c, quantity |-> q,
       unit_price |-> p, details_url |-> None, image_url |-> None] :
      i \in {None, "abc123"}, c \in CategoryNames, q \in 0..MaxQuantity, p \in Prices }

InitRT ==
    /\ pc = "idle"
    /\ req = NoRequest
    /\ calls = <<>>
    /\ inflight = {}
    /\ arrived = {}
    /\ idx = 0
    /\ all_products = {}
    /\ failed = {}
    /\ okUnion = {}
    /\ upstream = NoOutcome
    /\ result = NoResult
    /\ response = NoResponse
    /\ metrics = MetricKeys
    /\ svc = NewService
    /\ \E r \in RoundTripRecords :
         rt = [stage |-> "new", r |-> r, doc |-> <<>>, out |-> Return(Defaults)]

gateway == <<pc, req, calls, inflight, arrived, idx, all_products, failed, okUnion,
             upstream, result, response, metrics, svc>>

\* r.to_dict()
Serialize ==
    /\ rt.stage = "new"
    /\ rt' = [rt EXCEPT !.stage = "dict", !.doc = <<to_dict(rt.r)>>]
    /\ UNCHANGED gateway

\* ProductDetails.from_dict(d)
Deserialize ==
    /\ rt.stage = "dict"
    /\ rt' = [rt EXCEPT !.stage = "back", !.out = from_dict(rt.doc[1])]
    /\ UNCHANGED gateway

\* r.to_json()
SerializeJson ==
    /\ rt.stage = "new"
    /\ rt' = [rt EXCEPT !.stage = "json", !.doc = <<to_json(rt.r)>>]
    /\ UNCHANGED gateway

\* ProductDetails.from_json(s)
DeserializeJson ==
    /\ rt.stage = "json"
    /\ rt' = [rt EXCEPT !.stage = "back", !.out = from_json(rt.doc[1])]
    /\ UNCHANGED gateway

NextRT == Serialize \/ Deserialize \/ SerializeJson \/ DeserializeJson

SpecRT == InitRT /\ [][NextRT]_vars

(***************************************************************************)
(* Properties.                                                             *)
(***************************************************************************)
CategoryOps == {"get_products_by_category", "add_or_update_product", "remove_product"}

InvalidCategoryRequest == req.op \in CategoryOps /\ req.category \notin CategoryValues

\* C1: a category endpoint called with a string that is not a member of
\* ProductCategory answers 400, and no upstream request is issued while the
\* request is handled.
C1_InvalidCategoryRejected ==
    InvalidCategoryRequest =>
        /\ calls = <<>>
        /\ inflight = {}
        /\ pc = "done"
        /\ response.status = 400

\* C1 witness: the DELETE endpoint rejected "books", which differs from the
\* member "Books" only by case.
C1_Witness ==
    /\ req.op = "remove_product"
    /\ req.category = "books"
    /\ pc = "done"
    /\ response.status = 400
    /\ calls = <<>>

GetAllDone == req.op = "get_all_products" /\ pc = "done"

\* the classes of records equal in all fields
Distinct(S) == { { s \in S : ProductEq(r, s) } : r \in S }

\* C2: the set get_all_products_async returns has as many elements as there
\* are distinct records (equal in all fields) among the records the
\* categories returned with status 200.
C2_SizeIsDistinctCount ==
    GetAllDone =>
        /\ result.exc = "none"
        /\ Cardinality(result.val) = Cardinality(Distinct(okUnion))

\* C3: when exactly one category's upstream call fails and the others
\* succeed, get_all_products_async does not raise and returns the union of
\* the records of the other categories.
C3_OneFailureUnionOfRest ==
    (GetAllDone /\ Cardinality(failed) = 1) =>
        /\ result.exc = "none"
        /\ result.val = okUnion

\* the categories whose list request has been issued
Issued ==
    { c \in CategoryNames :
        \E i \in 1..Len(calls) : calls[i].url = ListUrl(svc.orleans_base_url, c) }

\* C4: in get_all_products_async no category's request waits for the
\* response of another category: once any response has arrived, the
\* requests of all categories have been issued.
C4_IssuedWithoutWaiting ==
    (req.op = "get_all_products" /\ arrived # {}) => Issued = CategoryNames

\* the number of list requests issued for the category
CallsFor(c) ==
    Cardinality({ i \in 1..Len(calls) :
                    calls[i] = Call("GET", ListUrl(svc.orleans_base_url, c), <<>>) })

\* C5: one run of get_all_products_async issues exactly one upstream list
\* request for each member of ProductCategory, eight in total, whatever the
\* outcomes of the requests.
C5_OneCallPerCategory ==
    req.op = "get_all_products" =>
        /\ \A c \in CategoryNames : CallsFor(c) <= 1
        /\ pc = "done" => /\ Len(calls) = 8
                          /\ \A c \in CategoryNames : CallsFor(c) = 1

\* C5 witness: a run finished in which some categories failed and others
\* returned records.
C5_Witness ==
    /\ GetAllDone
    /\ Len(calls) = 8
    /\ Cardinality(failed) = 3
    /\ okUnion # {}

GetByIdDone == req.op = "get_product_by_id" /\ pc = "done"

\* C6: when the upstream answers GET /api/products/{id} with 404,
\* get_product_by_id_async returns None without raising and the gateway
\* answers 404.
C6_Upstream404IsAbsent ==
    (GetByIdDone /\ upstream.net = "ok" /\ upstream.status = 404) =>
        /\ result.exc = "none"
        /\ result.val = <<>>
        /\ response.status = 404

\* C6 witness: a GET /products/{id} whose upstream call came back 404.
C6_Witness ==
    /\ GetByIdDone
    /\ upstream.net = "ok"
    /\ upstream.status = 404
    /\ response.status = 404

\* the upstream call failed: a network error, a status other than 200 and
\* 404, or a 200 whose body is not JSON
UpstreamFailure ==
    \/ upstream.net = "error"
    \/ upstream.net = "ok" /\ upstream.status \notin {200, 404}
    \/ upstream.net = "ok" /\ upstream.status = 200 /\ upstream.body.kind = "malformed"

\* C7: an upstream failure during GET /products/{id} is answered 500; the
\* gateway answers 404 only when the product is absent upstream.
C7_FailureIs500 ==
    GetByIdDone =>
        /\ UpstreamFailure => response.status = 500
        /\ response.status = 404 => (upstream.net = "ok" /\ upstream.status = 404)

AddDone == req.op = "add_or_update_product" /\ pc = "done" /\ upstream.net # "none"

\* C8: add_or_update_product_async returns true exactly when the upstream
\* POST answered 200 or 201; otherwise (any other status, a network error) it
\* returns false and the gateway answers 500.
C8_UpsertTrueIff200Or201 ==
    AddDone =>
        /\ result.exc = "none"
        /\ result.val <=> (upstream.net = "ok" /\ upstream.status \in {200, 201})
        /\ ~result.val => response.status = 500

\* C8 witness: the upstream answered the POST with 204, the service returned
\* false and the gateway answered 500.
C8_Witness ==
    /\ AddDone
    /\ upstream.net = "ok"
    /\ upstream.status = 204
    /\ result.val = FALSE
    /\ response.status = 500

RemoveDone == req.op = "remove_product" /\ pc = "done" /\ upstream.net # "none"

\* C9: for a valid category the DELETE endpoint answers 200 with a success
\* message exactly when the upstream DELETE answered 200 or 204, and 404 when
\* the upstream answered any other status.
C9_DeleteMapping ==
    RemoveDone =>
        /\ (response.status = 200 /\ response.kind = "message")
              <=> (upstream.net = "ok" /\ upstream.status \in {200, 204})
        /\ (upstream.net = "ok" /\ upstream.status \notin {200, 204})
              => response.status = 404

\* C9 witness: DELETE /categories/Books/products/abc123 with the upstream
\* answering 204.
C9_Witness ==
    /\ RemoveDone
    /\ req.category = "Books"
    /\ req.product_id = "abc123"
    /\ upstream.status = 204
    /\ response.status = 200
    /\ response.kind = "message"

\* the serialized total is quantity * unit_price rounded to two decimals:
\* it has at most two decimals and lies within half a cent of the product
TotalPriceRounded(d, r) ==
    LET t == d.total_price
    IN  /\ (t.coef * 100) % Pow10(t.exp) = 0
        /\ LET diff == t.coef * Pow10(r.unit_price.exp)
                         - r.quantity * r.unit_price.coef * Pow10(t.exp)
               abs  == IF diff < 0 THEN 0 - diff ELSE diff
           IN  200 * abs <= Pow10(r.unit_price.exp + t.exp)

\* C10: from_dict(r.to_dict()) and from_json(r.to_json()) succeed and yield a
\* record equal to r in all fields, and the serialized form carries
\* total_price = quantity * unit_price rounded to two decimals.
C10_RoundTrip ==
    /\ rt.stage = "dict" => TotalPriceRounded(rt.doc[1], rt.r)
    /\ rt.stage = "json" => TotalPriceRounded(rt.doc[1].text, rt.r)
    /\ rt.stage = "back" => (rt.out.exc = "none" /\ ProductEq(rt.out.val, rt.r))

\* C11: whether or not telemetry came up (no custom metrics were created
\* when it did not), GET /products answers 200 with the aggregated products
\* whenever the aggregator returned normally.
C11_ApiWithoutTelemetry ==
    (GetAllDone /\ result.exc = "none") =>
        /\ response.status = 200
        /\ response.kind = "products"

SingleCallOps ==
    {"get_product_by_id", "get_products_by_category", "add_or_update_product",
     "remove_product"}

SingleCallDone == req.op \in SingleCallOps /\ pc = "done" /\ upstream.net # "none"

\* the statuses the operation of the request takes for a success
SuccessStatuses ==
    IF req.op = "add_or_update_product" THEN {200, 201}
    ELSE IF req.op = "remove_product" THEN {200, 204}
    ELSE {200}

\* the attempt failed: a network error or a bad status
AttemptFailed == upstream.net = "error" \/ upstream.status \notin SuccessStatuses

\* the value the operation of the request returns for a failure
IsSentinel(v) ==
    IF req.op \in {"add_or_update_product", "remove_product"} THEN v = FALSE
    ELSE v = <<>>

\* C12: list-by-category, get-by-id, upsert and delete issue exactly one
\* upstream request per invocation and never a second one: after a failed
\* attempt the operation ends with its sentinel result without retrying.
C12_OneRequestNoRetry ==
    req.op \in SingleCallOps =>
        /\ Len(calls) <= 1
        /\ pc = "wait" => (Len(calls) = 1 /\ inflight = {calls[1]})
        /\ SingleCallDone => (Len(calls) = 1 /\ inflight = {})
        /\ (SingleCallDone /\ AttemptFailed) => IsSentinel(result.val)

\* C12 witness: a delete whose only attempt ended in a network error returned
\* false after one request.
C12_Witness ==
    /\ SingleCallDone
    /\ req.op = "remove_product"
    /\ upstream.net = "error"
    /\ Len(calls) = 1
    /\ result.val = FALSE

\* a read did not get a usable answer: a network-level failure, a status
\* that is not a success, or a body that is not JSON (the body of the answer
\* to an upsert or a delete is never read)
OutcomeUnusable ==
    \/ AttemptFailed
    \/ upstream.status = 200 /\ upstream.body.kind = "malformed"

\* C13: no client operation raises: for every upstream outcome (any status,
\* a network-level failure, a malformed body) list-by-category returns a list
\* (empty on failure), get-by-id returns a record or None, upsert and delete
\* return a boolean.
C13_SentinelNotException ==
    SingleCallDone =>
        /\ result.exc = "none"
        /\ req.op = "get_products_by_category" =>
              /\ \A i \in 1..Len(result.val) : DOMAIN result.val[i] = FieldNames
              /\ OutcomeUnusable => result.val = <<>>
        /\ req.op = "get_product_by_id" =>
              /\ Len(result.val) <= 1
              /\ \A i \in 1..Len(result.val) : DOMAIN result.val[i] = FieldNames
              /\ OutcomeUnusable => result.val = <<>>
        /\ req.op \in {"add_or_update_product", "remove_product"} =>
              /\ result.val \in BOOLEAN
              /\ AttemptFailed => result.val = FALSE

\* C13 witness: list-by-category got a 200 whose body is not JSON and
\* returned the empty list.
C13_Witness ==
    /\ SingleCallDone
    /\ req.op = "get_products_by_category"
    /\ upstream.net = "ok"
    /\ upstream.status = 200
    /\ upstream.body.kind = "malformed"
    /\ result = Return(<<>>)

ValidUpsert == req.op = "add_or_update_product" /\ req.category \in CategoryValues

\* C15: in POST /categories/{cat}/products the path category decides: the
\* upstream POST goes to /api/inventory/{cat}/products, and the forwarded
\* body and the echoed product carry the path category, whatever category
\* the request body names.
C15_PathCategoryDecides ==
    ValidUpsert =>
        /\ Len(calls) = 1
        /\ calls[1].method = "POST"
        /\ calls[1].url = <<svc.orleans_base_url, "api", "inventory", req.category,
                            "products">>
        /\ calls[1].json[1].category = req.category
        /\ (pc = "done" /\ response.status = 200) =>
              response.body[1].category = req.category

\* C15 witness: the body names "Books", the path "Music"; the upstream
\* accepted the POST and the echoed product is in "Music".
C15_Witness ==
    /\ ValidUpsert
    /\ pc = "done"
    /\ req.category = "Music"
    /\ req.body[1].category = "Books"
    /\ calls[1].json[1].category = "Music"
    /\ response.status = 200
    /\ response.body[1].category = "Music"

====
